---------------------------- MODULE Spec2Model ----------------------------
(***************************************************************************)
(* Song Grid (src/src/App.jsx): the column packer packColumns and the PDF  *)
(* export exportPdf (offscreen clone, pagination by .lineGroup, one        *)
(* rasterization per page, document assembly, teardown of the holder).     *)
(*                                                                         *)
(* Indices are 0-based as in the JavaScript source; TLA+ sequences are     *)
(* 1-based, so element i of a JavaScript array a is a[i + 1] here.         *)
(***************************************************************************)
EXTENDS Integers, Sequences, FiniteSets, TLC

(***************************************************************************)
(* Bounds of the model and the value sets the inputs are drawn from.       *)
(***************************************************************************)
MaxCols == 4
MaxGroups == 4
MaxEdits == 2
MaxRhythmLen == 3
MaxToggles == 3
MaxTextLen == 4
MaxColIndex == 1

WidthVals == {1, 2, 5, 100}
MaxRowVals == {0, 1, 3, 6, 250}
HeightVals == {1, 2, 100}
PageWidthVals == {1, 2, 174}
GapVals == {0, 1}
BlockHeightVals == {1, 2, 3}
LegacyWidthVals == {1, 2}
RhythmChars == {"1", "6", "r", ">", "x", ".", "-", " ", ",", "z"}
paddingBottomPx == 12
PlacedHeightVals == {100, 125, 250}
minCol == 10
paddingPx == 16
LongText == [k \in 1..20 |-> "z"]
WordRows == {<<<<"z">>>>, <<LongText, <<"z">>>>, <<LongText, LongText>>}
ChordVals == {<<>>, LongText}
RhythmVals == {<<>>, <<"1">>, <<"-">>, <<"r", "1", "6", ".">>}
NoteVals == {<<>>, <<"z", "z">>}
TypedChars == {"1", "-"}
ObservedHalfPx == {0, 47, 689, 691}
TextChars == {"a", "b", " ", "\t", "\r", "\n"}
SnapshotChars == {"1", "-", " ", ">", "z"}
FieldVals == {<<>>, <<"r", "1">>}

(***************************************************************************)
(* Constants of exportPdf.                                                 *)
(***************************************************************************)
marginTopMm == 12
marginBottomMm == 12
marginLeftMm == 10
marginRightMm == 10
pageWidthMm == 210
pageHeightMm == 297
SCALE == 2

VARIABLES
    \* packColumns(widths, maxRowPx): arguments, locals, position
    widths, maxRowPx, lines, current, currentW, i, packPc,
    \* the printable region as exportPdf finds it: heights of its .lineGroup
    \* elements, the spacing the page layout puts between two of them, and
    \* the width of the clone
    groupHeight, groupGap, pageWidthPx,
    \* exportPdf: position, document.body holds the holder, locals
    exportPc, holderAttached, lineGroups, pages, page, nextGroup,
    pageIdx, inflight, rasterStarted, pdfPages, images, saved,
    outcome, failedStep,
    \* the live printable element (printableRef.current): its class list and
    \* the number of user edits rendered into it
    liveClasses, liveEdits,
    \* exportPdf of src/unnamed/part_000: position, canvas height, measured
    \* .rowBlock ranges, the page slices, locals
    legacyPc, canvasHeight, blockRangesPx, slices, pageStart, legacySaved,
    \* formatRhythm(input): argument, result, position
    rhythmIn, rhythmOut, rhythmPc,
    \* normalizeTextToRows(text): argument, result, the result rejoined and
    \* normalized again, position
    rawText, rows, rejoined, rowsAgain, textPc,
    \* useState of App: annotation values, borders and React's queue of
    \* pending border updaters, the toggles issued so far
    inputValues, borders, pendingBorders, toggled, prevBorders,
    \* useState of App: active field kinds, observed width; the row laid out
    showChords, showRhythm, showNotes, previewWidth, words,
    \* useState of App: the rhythm input being edited; the focus history
    editingKey, lastFocused, lastEvent,
    \* the form fields of the clone and the texts that replace them
    cloneFields, fieldText

packVars == <<widths, maxRowPx, lines, current, currentW, i, packPc>>
regionVars == <<groupHeight, groupGap, pageWidthPx>>
domVars == <<holderAttached, lineGroups, pages, page, nextGroup>>
pdfVars == <<pageIdx, inflight, rasterStarted, pdfPages, images, saved>>
exportVars == <<exportPc, domVars, pdfVars, outcome, failedStep>>
liveVars == <<liveClasses, liveEdits>>
legacyVars == <<legacyPc, canvasHeight, blockRangesPx, slices, pageStart,
                legacySaved>>
rhythmVars == <<rhythmIn, rhythmOut, rhythmPc>>
textVars == <<rawText, rows, rejoined, rowsAgain, textPc>>
storeVars == <<inputValues, borders, pendingBorders, toggled, prevBorders>>
viewVars == <<showChords, showRhythm, showNotes, previewWidth, words>>
editVars == <<editingKey, lastFocused, lastEvent>>
fieldVars == <<cloneFields, fieldText>>
uiVars == <<rhythmVars, textVars, storeVars, viewVars, editVars, fieldVars>>
appVars == <<liveVars, legacyVars, uiVars>>
vars == <<packVars, regionVars, exportVars, appVars>>

(***************************************************************************)
(* Helpers on sequences.                                                   *)
(***************************************************************************)
SeqsUpTo(S, n) == UNION {[1..k -> S] : k \in 0..n}

RECURSIVE Flatten(_)
Flatten(ss) == IF ss = <<>> THEN <<>> ELSE Head(ss) \o Flatten(Tail(ss))

RECURSIVE SumSeq(_)
SumSeq(s) == IF s = <<>> THEN 0 ELSE Head(s) + SumSeq(Tail(s))

(***************************************************************************)
(* packColumns, App.jsx 33-60.  One action per path through the loop body. *)
(***************************************************************************)
\* a mutant of Fits: the column's own width is not counted
FitsIgnoringColumn(cw, w, maxPx) == cw <= maxPx

\* a mutant of Fits: a line filled exactly to maxRowPx counts as overflowing
FitsStrict(cw, w, maxPx) == cw + w < maxPx

\* line 47: currentW + w <= maxRowPx
Fits(cw, w, maxPx) == cw + w <= maxPx

\* a mutant of FinalLines: the last open line is not pushed
FinalLinesDropped(ls, cur) == ls

\* line 58: if (current.length) lines.push(current)
FinalLines(ls, cur) == IF Len(cur) # 0 THEN Append(ls, cur) ELSE ls

PackIdle ==
    /\ widths = <<>> /\ maxRowPx = 0
    /\ lines = <<>> /\ current = <<>> /\ currentW = 0 /\ i = 0
    /\ packPc = "idle"

\* the call: lines 34-36
PackInit ==
    /\ widths \in SeqsUpTo(WidthVals, MaxCols)
    /\ maxRowPx \in MaxRowVals
    /\ lines = <<>> /\ current = <<>> /\ currentW = 0 /\ i = 0
    /\ packPc = "loop"

\* lines 41-45: the accumulator is empty
PackFirst ==
    /\ packPc = "loop" /\ i < Len(widths)
    /\ Len(current) = 0
    /\ current' = Append(current, i)
    /\ currentW' = widths[i + 1]
    /\ i' = i + 1
    /\ UNCHANGED <<widths, maxRowPx, lines, packPc, regionVars, exportVars,
                   appVars>>

\* lines 47-51: the column fits the current line
PackAppend ==
    /\ packPc = "loop" /\ i < Len(widths)
    /\ Len(current) # 0
    /\ Fits(currentW, widths[i + 1], maxRowPx)
    /\ current' = Append(current, i)
    /\ currentW' = currentW + widths[i + 1]
    /\ i' = i + 1
    /\ UNCHANGED <<widths, maxRowPx, lines, packPc, regionVars, exportVars,
                   appVars>>

\* lines 53-55: close the line, start the next with column i
PackBreak ==
    /\ packPc = "loop" /\ i < Len(widths)
    /\ Len(current) # 0
    /\ ~Fits(currentW, widths[i + 1], maxRowPx)
    /\ lines' = Append(lines, current)
    /\ current' = <<i>>
    /\ currentW' = widths[i + 1]
    /\ i' = i + 1
    /\ UNCHANGED <<widths, maxRowPx, packPc, regionVars, exportVars,
                   appVars>>

\* lines 58-59
PackReturn ==
    /\ packPc = "loop" /\ ~(i < Len(widths))
    /\ lines' = FinalLines(lines, current)
    /\ packPc' = "done"
    /\ UNCHANGED <<widths, maxRowPx, current, currentW, i, regionVars, exportVars,
                   appVars>>

PackNext ==
    \/ PackFirst
    \/ PackAppend
    \/ PackBreak
    \/ PackReturn

(***************************************************************************)
(* exportPdf, App.jsx 154-282.  The function suspends at each await; the   *)
(* code between two awaits is one action, except that the pagination loop  *)
(* (233-242) is followed group by group.  All of its state is local to the *)
(* invocation, and the model follows one invocation.                       *)
(***************************************************************************)
printableWidthMm == pageWidthMm - marginLeftMm - marginRightMm
printableHeightMm == pageHeightMm - marginTopMm - marginBottomMm

\* lines 213-215: Math.floor(printableHeightMm * (pageWidthPx / printableWidthMm))
maxPageHeightPx == (printableHeightMm * pageWidthPx) \div printableWidthMm

\* height of line group g of the clone
HeightOf(g) == groupHeight[g + 1]

\* line 236: page.scrollHeight, the rendered height of a page's children:
\* their heights and the spacing between consecutive ones
scrollHeight(children) ==
    IF children = <<>> THEN 0
    ELSE SumSeq([k \in 1..Len(children) |-> HeightOf(children[k])])
             + groupGap * (Len(children) - 1)

\* lines 249, 258: the height of a page once style.paddingBottom is set
PaddedHeight(children) == scrollHeight(children) + paddingBottomPx

\* lines 251-259: the canvas html2canvas returns for a page, SCALE device
\* pixels per pixel
CanvasOf(children) ==
    [width |-> pageWidthPx * SCALE, height |-> PaddedHeight(children) * SCALE]

\* Node.removeChild(g) on the page at position p
RemoveChild(pgs, p, g) ==
    [pgs EXCEPT ![p] = SelectSeq(@, LAMBDA x : x # g)]

\* Node.appendChild(g) on the page at position p: a node has one parent, so
\* appending moves g out of the page that holds it
AppendChild(pgs, p, g) ==
    LET detached == [q \in 1..Len(pgs) |-> SelectSeq(pgs[q], LAMBDA x : x # g)]
    IN  [detached EXCEPT ![p] = Append(@, g)]

\* lines 223-229: makePage appends a new, empty .pdf-page
MakePage(pgs) == Append(pgs, <<>>)

\* a mutant of Overflows: a page of two groups may overflow
OverflowsFromThird(h, count) == h > maxPageHeightPx /\ count > 2

\* a mutant of Overflows: a page filled exactly to the maximum overflows
OverflowsAtLimit(h, count) == h >= maxPageHeightPx /\ count > 1

\* a mutant of Overflows: the group count is not consulted
OverflowsAlone(h, count) == h > maxPageHeightPx

\* line 237: h > maxPageHeightPx && page.childElementCount > 1
Overflows(h, count) == h > maxPageHeightPx /\ count > 1

\* a mutant of MoveToNewPage: the group is removed and not placed again
MoveToNewPageLost(pgs, p, g) == MakePage(RemoveChild(pgs, p, g))

\* lines 238-240: removeChild, makePage, appendChild on the new page
MoveToNewPage(pgs, p, g) ==
    LET made == MakePage(RemoveChild(pgs, p, g))
    IN  AppendChild(made, Len(made), g)

\* a mutant of RasterMayStart: the previous html2canvas is not awaited
RasterMayStartUnawaited == exportPc \in {"render", "canvas"}

\* lines 245, 251: the loop reaches html2canvas for page i only after the
\* await of the previous iteration has returned
RasterMayStart == exportPc = "render"

\* a mutant of NextPageIdx: a page is skipped
NextPageIdxSkipping(n) == n + 2

\* line 245: i++
NextPageIdx(n) == n + 1

\* a mutant of HolderAfterExit: the holder is removed on the normal path only
HolderAfterExitLeaked(thrown) == thrown

\* lines 279-281: finally { holder.remove() } on either exit
HolderAfterExit(thrown) == FALSE

\* a mutant of OutcomeAfterExit: the failure is swallowed
OutcomeAfterExitSwallowed(thrown) == "resolved"

\* lines 182, 279: try/finally without catch, in an async function: a throw
\* rejects the returned promise, normal completion resolves it
OutcomeAfterExit(thrown) == IF thrown THEN "rejected" ELSE "resolved"

\* the statements that can throw at each position of the try block
ThrowableAt(pc) ==
    CASE pc = "raf1" -> {"frame"}
      [] pc = "raf2" -> {"fields"}
      [] pc = "paginate" -> {"paginate"}
      [] pc = "canvas" -> {"rasterize", "assemble"}
      [] pc = "render" ->
            IF pageIdx < Len(pages) THEN {"rasterize"} ELSE {"save"}
      [] OTHER -> {}

(***************************************************************************)
(* formatRhythm, src/src/utils/formatRhythm.js.  A string is the sequence  *)
(* of its characters; each music glyph, the middle dot and the en dash of  *)
(* the output are one character each, named in words.                      *)
(***************************************************************************)
Str(n, c) == [k \in 1..n |-> c]

\* Array.prototype.join
RECURSIVE Join(_, _)
Join(parts, sep) ==
    IF parts = <<>> THEN <<>>
    ELSE IF Len(parts) = 1 THEN parts[1]
    ELSE parts[1] \o sep \o Join(Tail(parts), sep)

\* s.split(/[seps]+/).filter(Boolean): the maximal runs of characters of s
\* that are not in seps; cur is the run being read
RECURSIVE Runs(_, _, _)
Runs(s, seps, cur) ==
    IF s = <<>> THEN (IF cur = <<>> THEN <<>> ELSE <<cur>>)
    ELSE IF Head(s) \in seps
         THEN (IF cur = <<>> THEN <<>> ELSE <<cur>>)
                  \o Runs(Tail(s), seps, <<>>)
         ELSE Runs(Tail(s), seps, Append(cur, Head(s)))

\* String.prototype.split(sep) for a one-character sep: empty pieces are kept
RECURSIVE Split(_, _, _)
Split(s, sep, cur) ==
    IF s = <<>> THEN <<cur>>
    ELSE IF Head(s) = sep THEN <<cur>> \o Split(Tail(s), sep, <<>>)
    ELSE Split(Tail(s), sep, Append(cur, Head(s)))

\* \s of a JavaScript regular expression, as far as the model's texts go
Whitespace == {" ", "\t", "\n", "\r"}

\* formatRhythm.js lines 5-12
NOTE_MAP(code) ==
    CASE code = <<"1">> -> "whole-note"
      [] code = <<"2">> -> "half-note"
      [] code = <<"4">> -> "quarter-note"
      [] code = <<"8">> -> "eighth-note"
      [] code = <<"1", "6">> -> "sixteenth-note"
      [] code = <<"3", "2">> -> "thirty-second-note"
      [] OTHER -> "none"

\* formatRhythm.js lines 14-21
REST_MAP(code) ==
    CASE code = <<"1">> -> "whole-rest"
      [] code = <<"2">> -> "half-rest"
      [] code = <<"4">> -> "quarter-rest"
      [] code = <<"8">> -> "eighth-rest"
      [] code = <<"1", "6">> -> "sixteenth-rest"
      [] OTHER -> "none"

\* formatRhythm.js lines 23-29: trim, split(/[,\s|]+/g), filter(Boolean)
tokenizeRhythm(input) == Runs(input, Whitespace \cup {",", "|"}, <<>>)

\* formatRhythm.js lines 75-88: the glyph, or "none" for null
renderSingle(t) ==
    IF t # <<>> /\ Head(t) \in {"r", "R"} /\ REST_MAP(Tail(t)) # "none"
    THEN REST_MAP(Tail(t))
    ELSE NOTE_MAP(t)

Without(t, c) == SelectSeq(t, LAMBDA x : x # c)

\* formatRhythm.js line 43: the number of dots at the end of t
RECURSIVE TrailingDots(_)
TrailingDots(t) ==
    IF t # <<>> /\ t[Len(t)] = "." THEN 1 + TrailingDots(SubSeq(t, 1, Len(t) - 1))
    ELSE 0

\* formatRhythm.js line 53: rendered.every(Boolean), true of no parts too
TieParses(rendered) == \A k \in 1..Len(rendered) : rendered[k] # "none"

\* formatRhythm.js lines 31-73: ok is FALSE for null
parseToken(tokenRaw) ==
    LET accent == \E k \in 1..Len(tokenRaw) : tokenRaw[k] = ">"
        t1 == Without(tokenRaw, ">")
        stacc == \E k \in 1..Len(t1) : t1[k] = "x"
        t2 == Without(t1, "x")
        dots == TrailingDots(t2)
        t == SubSeq(t2, 1, Len(t2) - dots)
        parts == Runs(t, {"-"}, <<>>)
        rendered == [k \in 1..Len(parts) |-> renderSingle(parts[k])]
        single == renderSingle(t)
    IN  IF (\E k \in 1..Len(t) : t[k] = "-") /\ TieParses(rendered)
        THEN [ok |-> TRUE,
              text |-> Join([k \in 1..Len(rendered) |-> <<rendered[k]>>],
                            <<"en-dash">>)]
        ELSE IF single = "none" THEN [ok |-> FALSE, text |-> <<>>]
        ELSE [ok |-> TRUE,
              text |-> (IF accent THEN <<">">> ELSE <<>>) \o <<single>>
                           \o Str(dots, "middle-dot")
                           \o (IF stacc THEN <<"middle-dot">> ELSE <<>>)]

\* formatRhythm.js lines 98-108: parsed?.text ?? tok, joined by " "
formatRhythm(input) ==
    LET tokens == tokenizeRhythm(input)
    IN  Join([k \in 1..Len(tokens) |->
                 IF parseToken(tokens[k]).ok THEN parseToken(tokens[k]).text
                 ELSE tokens[k]],
             <<" ">>)

\* JavaScript's null; no key of the app equals it
null == <<>>

\* no event was handled yet
NoEvent == [type |-> "none", cell |-> <<>>]

\* lines 126-127 and 80-81: getInputKey and makeEditKey build the same key
getInputKey(rowIndex, colIndex, type) == <<rowIndex, colIndex, type>>

\* lines 129-132: inputValues[key] || ""
getInputValue(rowIndex, colIndex, type) ==
    IF getInputKey(rowIndex, colIndex, type) \in DOMAIN inputValues
    THEN inputValues[getInputKey(rowIndex, colIndex, type)]
    ELSE <<>>

\* lines 82-83: editingKey === makeEditKey(rowIndex, colIndex, type)
isEditing(rowIndex, colIndex, type) ==
    editingKey = getInputKey(rowIndex, colIndex, type)

\* lines 466, 520, 592: what the input of a field shows
displayValue(rowIndex, colIndex, type) ==
    IF type = "rhythm" /\ ~isEditing(rowIndex, colIndex, type)
    THEN formatRhythm(getInputValue(rowIndex, colIndex, type))
    ELSE getInputValue(rowIndex, colIndex, type)

\* lines 436, 484, 564: the field kinds that are shown
ActiveKinds ==
    SelectSeq(<<"chord", "rhythm", "note">>,
              LAMBDA t : \/ t = "chord" /\ showChords
                         \/ t = "rhythm" /\ showRhythm
                         \/ t = "note" /\ showNotes)

\* lines 436-600: the inputs of the printable region, one per column of the
\* row laid out and active kind
LiveFields ==
    [n \in 1..(Len(words) * Len(ActiveKinds)) |->
        [rowIndex |-> 0,
         colIndex |-> (n - 1) \div Len(ActiveKinds),
         type |-> ActiveKinds[((n - 1) % Len(ActiveKinds)) + 1]]]

\* line 167: cloneNode(true) copies each input with the value it shows
CloneFields ==
    [n \in 1..Len(LiveFields) |->
        [rowIndex |-> LiveFields[n].rowIndex,
         colIndex |-> LiveFields[n].colIndex,
         type |-> LiveFields[n].type,
         value |-> displayValue(LiveFields[n].rowIndex,
                                LiveFields[n].colIndex, LiveFields[n].type)]]

\* lines 187-200: each input of the clone becomes a div with this text
ReplaceFields(formEls) ==
    [n \in 1..Len(formEls) |->
        [rowIndex |-> formEls[n].rowIndex,
         colIndex |-> formEls[n].colIndex,
         type |-> formEls[n].type,
         text |-> IF formEls[n].type = "rhythm"
                  THEN formatRhythm(formEls[n].value)
                  ELSE formEls[n].value]]

RegionIdle == groupHeight = <<>> /\ groupGap = 0 /\ pageWidthPx = 0

RegionInit ==
    /\ groupHeight \in SeqsUpTo(HeightVals, MaxGroups)
    /\ groupGap \in GapVals
    /\ pageWidthPx \in PageWidthVals

ExportIdle ==
    /\ exportPc = "idle" /\ holderAttached = FALSE
    /\ lineGroups = <<>> /\ pages = <<>> /\ page = 0 /\ nextGroup = 0
    /\ pageIdx = 0 /\ inflight = {} /\ rasterStarted = <<>>
    /\ pdfPages = 0 /\ images = <<>> /\ saved = FALSE
    /\ outcome = "none" /\ failedStep = "none"

\* a mutant of ExportEnabled: the button is never disabled
ExportEnabledAlways == TRUE

\* line 346: the button that calls exportPdf is disabled while
\* rows.length === 0.  The printable region holds one .lineGroup per pack
\* line of each row (lines 425-434) and a row has at least one word
\* (lines 15-17), so rows is empty exactly when there is no line group.
ExportEnabled == Len(groupHeight) # 0

\* lines 155-183: clone, holder, document.body.appendChild(holder), first await
ExportStart ==
    /\ exportPc = "idle"
    /\ ExportEnabled
    /\ holderAttached' = TRUE
    /\ outcome' = "pending"
    /\ exportPc' = "raf1"
    /\ cloneFields' = CloneFields
    /\ UNCHANGED <<lineGroups, pages, page, nextGroup, pdfVars, failedStep>>
    /\ UNCHANGED <<packVars, regionVars, liveVars, legacyVars, rhythmVars,
                   textVars, storeVars, viewVars, editVars, fieldText>>

\* lines 183-184: the first animation frame; the second await
FirstFrame ==
    /\ exportPc = "raf1"
    /\ exportPc' = "raf2"
    /\ UNCHANGED <<domVars, pdfVars, outcome, failedStep>>
    /\ UNCHANGED <<packVars, regionVars, appVars>>

\* lines 186-231: fields replaced, new jsPDF (one page), the line groups
\* collected, the clone emptied, the first page made
PreparePages ==
    /\ exportPc = "raf2"
    /\ pdfPages' = 1
    /\ lineGroups' = [k \in 1..Len(groupHeight) |-> k - 1]
    /\ pages' = MakePage(<<>>)
    /\ page' = 1
    /\ nextGroup' = 0
    /\ exportPc' = "paginate"
    /\ fieldText' = ReplaceFields(cloneFields)
    /\ cloneFields' = <<>>
    /\ UNCHANGED <<holderAttached, pageIdx, inflight, rasterStarted, images,
                   saved, outcome, failedStep>>
    /\ UNCHANGED <<packVars, regionVars, liveVars, legacyVars, rhythmVars,
                   textVars, storeVars, viewVars, editVars>>

\* lines 233-237, the condition false: the group stays on the current page
PaginateKeep ==
    /\ exportPc = "paginate" /\ nextGroup < Len(lineGroups)
    /\ LET group == lineGroups[nextGroup + 1]
           appended == AppendChild(pages, page, group)
           h == scrollHeight(appended[page])
       IN  /\ ~Overflows(h, Len(appended[page]))
           /\ pages' = appended
    /\ nextGroup' = nextGroup + 1
    /\ UNCHANGED <<exportPc, holderAttached, lineGroups, page, pdfVars,
                   outcome, failedStep>>
    /\ UNCHANGED <<packVars, regionVars, appVars>>

\* lines 233-241, the condition true: the group opens a new page
PaginateBreak ==
    /\ exportPc = "paginate" /\ nextGroup < Len(lineGroups)
    /\ LET group == lineGroups[nextGroup + 1]
           appended == AppendChild(pages, page, group)
           h == scrollHeight(appended[page])
       IN  /\ Overflows(h, Len(appended[page]))
           /\ pages' = MoveToNewPage(appended, page, group)
    /\ page' = Len(pages')
    /\ nextGroup' = nextGroup + 1
    /\ UNCHANGED <<exportPc, holderAttached, lineGroups, pdfVars, outcome,
                   failedStep>>
    /\ UNCHANGED <<packVars, regionVars, appVars>>

\* line 233 exhausted, line 245: let i = 0
PaginateDone ==
    /\ exportPc = "paginate" /\ ~(nextGroup < Len(lineGroups))
    /\ pageIdx' = 0
    /\ exportPc' = "render"
    /\ UNCHANGED <<domVars, inflight, rasterStarted, pdfPages, images, saved,
                   outcome, failedStep>>
    /\ UNCHANGED <<packVars, regionVars, appVars>>

\* lines 245-259: html2canvas(pages[i]) is called and awaited
RasterStart ==
    /\ RasterMayStart
    /\ pageIdx < Len(pages)
    /\ rasterStarted' = Append(rasterStarted, pageIdx)
    /\ inflight' = inflight \cup {pageIdx}
    /\ exportPc' = "canvas"
    /\ UNCHANGED <<domVars, pageIdx, pdfPages, images, saved, outcome,
                   failedStep>>
    /\ UNCHANGED <<packVars, regionVars, appVars>>

\* lines 261-276: the canvas arrives; addPage for i > 0, addImage, i++
RasterResolve ==
    /\ exportPc = "canvas"
    /\ inflight' = inflight \ {pageIdx}
    /\ pdfPages' = IF pageIdx > 0 THEN pdfPages + 1 ELSE pdfPages
    /\ images' = Append(images, [pdfPage |-> pdfPages', page |-> pageIdx,
                                 groups |-> pages[pageIdx + 1],
                                 canvas |-> CanvasOf(pages[pageIdx + 1])])
    /\ pageIdx' = NextPageIdx(pageIdx)
    /\ exportPc' = "render"
    /\ UNCHANGED <<domVars, rasterStarted, saved, outcome, failedStep>>
    /\ UNCHANGED <<packVars, regionVars, appVars>>

\* lines 278-281: pdf.save, then the finally block, and the promise settles
SaveAndFinish ==
    /\ exportPc = "render" /\ ~(pageIdx < Len(pages))
    /\ saved' = TRUE
    /\ holderAttached' = HolderAfterExit(FALSE)
    /\ outcome' = OutcomeAfterExit(FALSE)
    /\ exportPc' = "done"
    /\ UNCHANGED <<lineGroups, pages, page, nextGroup, pageIdx, inflight,
                   rasterStarted, pdfPages, images, failedStep>>
    /\ UNCHANGED <<packVars, regionVars, appVars>>

\* a statement of the try block throws, or the awaited html2canvas promise
\* rejects: lines 279-281 run and the returned promise settles.  A throw in
\* the assembly may come before or after pdf.addPage (line 263).
ExportThrow ==
    /\ \E step \in ThrowableAt(exportPc) :
          /\ failedStep' = step
          /\ inflight' = IF exportPc = "canvas" THEN inflight \ {pageIdx}
                         ELSE inflight
          /\ \E pageAdded \in BOOLEAN :
                pdfPages' = IF step = "assemble" /\ pageAdded /\ pageIdx > 0
                            THEN pdfPages + 1 ELSE pdfPages
    /\ holderAttached' = HolderAfterExit(TRUE)
    /\ outcome' = OutcomeAfterExit(TRUE)
    /\ exportPc' = "failed"
    /\ UNCHANGED <<lineGroups, pages, page, nextGroup, pageIdx,
                   rasterStarted, images, saved>>
    /\ UNCHANGED <<packVars, regionVars, appVars>>

ExportNext ==
    \/ ExportStart
    \/ FirstFrame
    \/ PreparePages
    \/ PaginateKeep
    \/ PaginateBreak
    \/ PaginateDone
    \/ RasterStart
    \/ RasterResolve
    \/ SaveAndFinish
    \/ ExportThrow

(***************************************************************************)
(* The live printable element, and the user's edits of it.                 *)
(***************************************************************************)
\* line 418: <div className="printableWrap" ref={printableRef}>
LiveIdle == liveClasses = {"printableWrap"} /\ liveEdits = 0

\* an edit of the text, of an annotation or of a border re-renders the
\* children of the printable element; its className is fixed (line 418)
UserEdit ==
    /\ liveEdits < MaxEdits
    /\ liveEdits' = liveEdits + 1
    /\ UNCHANGED <<liveClasses, packVars, regionVars, exportVars, legacyVars,
                   uiVars>>

(***************************************************************************)
(* exportPdf of src/unnamed/part_000, lines 134-255: the live element is   *)
(* rasterized as one canvas, which is then cut into page slices at the     *)
(* boundaries of the .rowBlock elements.  regionVars give the heights of   *)
(* the row blocks, the spacing between them and the width of the element.  *)
(***************************************************************************)
\* part_000 line 143: the canvas of the whole element at scale SCALE
fullCanvasWidth == pageWidthPx * SCALE

\* part_000 lines 162-163: Math.floor(printableHeightMm * pxPerMm)
pageHeightPx == (printableHeightMm * fullCanvasWidth) \div printableWidthMm

\* part_000 lines 169-177: top, bottom and height of each block, scaled
BlockRanges ==
    [k \in 1..Len(groupHeight) |->
        LET top == (scrollHeight([j \in 1..(k - 1) |-> j - 1])
                       + (IF k > 1 THEN groupGap ELSE 0)) * SCALE
            bottom == top + groupHeight[k] * SCALE
        IN  [top |-> top, bottom |-> bottom, h |-> bottom - top]]

Min(a, b) == IF a <= b THEN a ELSE b
Max(a, b) == IF a >= b THEN a ELSE b

\* part_000 lines 184-209: where the page that starts at start ends
BreakAt(start) ==
    LET pageEndIdeal == Min(start + pageHeightPx, canvasHeight)
        cuts == {k \in 1..Len(blockRangesPx) :
                    /\ blockRangesPx[k].top < pageEndIdeal
                    /\ blockRangesPx[k].bottom > pageEndIdeal}
        candidates == {k \in 1..Len(blockRangesPx) :
                          /\ blockRangesPx[k].top > start
                          /\ blockRangesPx[k].top < pageEndIdeal}
        chosen ==
            IF cuts # {}
            THEN LET cutting == blockRangesPx[CHOOSE k \in cuts :
                                                  \A m \in cuts : k <= m]
                 IN  IF cutting.h <= pageHeightPx
                     THEN (IF cutting.top = start THEN pageEndIdeal
                           ELSE cutting.top)
                     ELSE pageEndIdeal
            ELSE IF candidates # {}
                 THEN blockRangesPx[CHOOSE k \in candidates :
                                        \A m \in candidates : k >= m].top
                 ELSE pageEndIdeal
    IN  IF chosen <= start THEN pageEndIdeal ELSE chosen

\* part_000 line 138: el.classList.add("pdf-export") on the live element
ClassesDuringExport(classes) == classes \cup {"pdf-export"}

\* part_000 line 253: el.classList.remove("pdf-export")
ClassesAfterExport(classes) == classes \ {"pdf-export"}

LegacyIdle ==
    /\ legacyPc = "idle" /\ canvasHeight = 0 /\ blockRangesPx = <<>>
    /\ slices = <<>> /\ pageStart = 0 /\ legacySaved = FALSE

LegacyRegionInit ==
    /\ groupHeight \in SeqsUpTo(BlockHeightVals, MaxGroups)
    /\ groupGap \in GapVals
    /\ pageWidthPx \in LegacyWidthVals

\* part_000 lines 135-147 (the button is disabled while rows.length === 0,
\* line 289): the class is added and html2canvas(el) is awaited
LegacyStart ==
    /\ legacyPc = "idle"
    /\ ExportEnabled
    /\ liveClasses' = ClassesDuringExport(liveClasses)
    /\ legacyPc' = "canvas"
    /\ UNCHANGED <<liveEdits, canvasHeight, blockRangesPx, slices, pageStart,
                   legacySaved, packVars, regionVars, exportVars,
                   uiVars>>

\* part_000 lines 149-181: the canvas arrives; the blocks are measured
LegacyCanvas ==
    /\ legacyPc = "canvas"
    /\ canvasHeight' = scrollHeight([k \in 1..Len(groupHeight) |-> k - 1])
                           * SCALE
    /\ blockRangesPx' = BlockRanges
    /\ slices' = <<>>
    /\ pageStart' = 0
    /\ legacyPc' = "slice"
    /\ UNCHANGED <<liveVars, legacySaved, packVars, regionVars, exportVars,
                   uiVars>>

\* part_000 lines 183-213: one turn of the while loop
LegacySlice ==
    /\ legacyPc = "slice" /\ pageStart < canvasHeight
    /\ LET breakAt == BreakAt(pageStart)
       IN  /\ slices' = Append(slices, [y |-> pageStart,
                                        h |-> Max(1, breakAt - pageStart)])
           /\ pageStart' = breakAt
    /\ UNCHANGED <<liveVars, legacyPc, canvasHeight, blockRangesPx,
                   legacySaved, packVars, regionVars, exportVars,
                   uiVars>>

\* part_000 lines 216-254: the slices are drawn and added, the document is
\* saved, and the finally block removes the class
LegacyFinish ==
    /\ legacyPc = "slice" /\ ~(pageStart < canvasHeight)
    /\ legacySaved' = TRUE
    /\ liveClasses' = ClassesAfterExport(liveClasses)
    /\ legacyPc' = "done"
    /\ UNCHANGED <<liveEdits, canvasHeight, blockRangesPx, slices, pageStart,
                   packVars, regionVars, exportVars,
                   uiVars>>

\* html2canvas rejects or a statement of the try block throws: part_000
\* lines 252-254 run
LegacyThrow ==
    /\ legacyPc \in {"canvas", "slice"}
    /\ liveClasses' = ClassesAfterExport(liveClasses)
    /\ legacyPc' = "failed"
    /\ UNCHANGED <<liveEdits, canvasHeight, blockRangesPx, slices, pageStart,
                   legacySaved, packVars, regionVars, exportVars,
                   uiVars>>

LegacyNext ==
    \/ UserEdit
    \/ LegacyStart
    \/ LegacyCanvas
    \/ LegacySlice
    \/ LegacyFinish
    \/ LegacyThrow

RhythmIdle == rhythmIn = <<>> /\ rhythmOut = <<>> /\ rhythmPc = "idle"

RhythmInit ==
    /\ rhythmIn \in SeqsUpTo(RhythmChars, MaxRhythmLen)
    /\ rhythmOut = <<>>
    /\ rhythmPc = "call"

\* the call formatRhythm(rhythmIn)
FormatRhythm ==
    /\ rhythmPc = "call"
    /\ rhythmOut' = formatRhythm(rhythmIn)
    /\ rhythmPc' = "done"
    /\ UNCHANGED <<rhythmIn, packVars, regionVars, exportVars, liveVars,
                   legacyVars, textVars, storeVars, viewVars, editVars,
                   fieldVars>>

(***************************************************************************)
(* normalizeTextToRows, App.jsx 11-18.                                     *)
(***************************************************************************)
\* line 13: replace(/\r\n/g, "\n")
RECURSIVE ReplaceCRLF(_)
ReplaceCRLF(s) ==
    IF s = <<>> THEN <<>>
    ELSE IF Len(s) >= 2 /\ s[1] = "\r" /\ s[2] = "\n"
         THEN <<"\n">> \o ReplaceCRLF(SubSeq(s, 3, Len(s)))
         ELSE <<Head(s)>> \o ReplaceCRLF(Tail(s))

\* a mutant of trim: the line is kept as it is
trimNothing(l) == l

\* line 15: String.prototype.trim
RECURSIVE trim(_)
trim(l) ==
    IF l = <<>> THEN <<>>
    ELSE IF Head(l) \in Whitespace THEN trim(Tail(l))
    ELSE IF l[Len(l)] \in Whitespace THEN trim(SubSeq(l, 1, Len(l) - 1))
    ELSE l

\* lines 11-18
normalizeTextToRows(text) ==
    LET split == Split(ReplaceCRLF(text), "\n", <<>>)
        trimmed == [k \in 1..Len(split) |-> trim(split[k])]
        kept == SelectSeq(trimmed, LAMBDA l : Len(l) > 0)
    IN  [k \in 1..Len(kept) |-> Runs(kept[k], Whitespace, <<>>)]

\* rows joined by newline, the words of a row by one space
Rejoin(R) ==
    Join([k \in 1..Len(R) |-> Join([n \in 1..Len(R[k]) |-> R[k][n]], <<" ">>)],
         <<"\n">>)

TextInit ==
    /\ rawText \in SeqsUpTo(TextChars, MaxTextLen)
    /\ rows = <<>> /\ rejoined = <<>> /\ rowsAgain = <<>>
    /\ textPc = "call"

\* line 88: rows = normalizeTextToRows(rawText)
NormalizeText ==
    /\ textPc = "call"
    /\ rows' = normalizeTextToRows(rawText)
    /\ textPc' = "rows"
    /\ UNCHANGED <<rawText, rejoined, rowsAgain>>
    /\ UNCHANGED <<packVars, regionVars, exportVars, liveVars, legacyVars,
                   rhythmVars, storeVars, viewVars, editVars, fieldVars>>

\* the rows are written back as text and that text is normalized
NormalizeRejoined ==
    /\ textPc = "rows"
    /\ rejoined' = Rejoin(rows)
    /\ rowsAgain' = normalizeTextToRows(Rejoin(rows))
    /\ textPc' = "done"
    /\ UNCHANGED <<rawText, rows>>
    /\ UNCHANGED <<packVars, regionVars, exportVars, liveVars, legacyVars,
                   rhythmVars, storeVars, viewVars, editVars, fieldVars>>

TextNext == NormalizeText \/ NormalizeRejoined

(***************************************************************************)
(* The border store of App: useState({}) of line 69, read by               *)
(* getBorderState and written by the functional updater of toggleBorder.   *)
(* React queues the updaters of setBorders and applies them in order, each *)
(* to the result of the one before.                                        *)
(***************************************************************************)
Cells == {<<0, c>> : c \in 0..MaxColIndex}
Sides == {"left", "right"}

\* a mutant of BorderOf: an absent entry reads as a left border
BorderOfAbsentLeft(b, key) ==
    IF key \in DOMAIN b THEN b[key] ELSE [left |-> TRUE, right |-> FALSE]

\* line 110: borders[key] || { left: false, right: false }
BorderOf(b, key) ==
    IF key \in DOMAIN b THEN b[key] ELSE [left |-> FALSE, right |-> FALSE]

\* lines 108-111
getBorderState(rowIndex, colIndex) == BorderOf(borders, <<rowIndex, colIndex>>)

\* a mutant of UpdaterInput: the new state is computed from the borders the
\* handler saw when it was called
UpdaterInputStale(prev, captured) == captured

\* line 115: setBorders((prev) => ...): the updater works on the state React
\* passes it, not on the borders of the render that called toggleBorder
UpdaterInput(prev, captured) == prev

\* a mutant of ToggleUpdater: the entry of prev is changed in place
ToggleUpdaterInPlace(prev, key, side) ==
    LET cur == IF key \in DOMAIN prev THEN prev[key]
               ELSE [left |-> FALSE, right |-> FALSE]
        next == [k \in DOMAIN prev \cup {key} |->
                    IF k = key THEN [cur EXCEPT ![side] = ~cur[side]]
                    ELSE prev[k]]
    IN  [prev |-> next, next |-> next]

\* lines 115-118: the updater; next is the object it returns, prev the object
\* it was passed as it is afterwards (the spreads copy, nothing is assigned)
ToggleUpdater(prev, key, side) ==
    LET cur == IF key \in DOMAIN prev THEN prev[key]
               ELSE [left |-> FALSE, right |-> FALSE]
    IN  [prev |-> prev,
         next |-> [k \in DOMAIN prev \cup {key} |->
                      IF k = key THEN [cur EXCEPT ![side] = ~cur[side]]
                      ELSE prev[k]]]

Issued == [t \in Cells \X Sides |-> 0]

\* the number of toggles issued so far
RECURSIVE TotalIssued(_)
TotalIssued(S) ==
    IF S = {} THEN 0
    ELSE LET t == CHOOSE x \in S : TRUE
         IN  toggled[t] + TotalIssued(S \ {t})

BordersInit ==
    /\ borders = <<>> /\ pendingBorders = <<>> /\ prevBorders = <<>>
    /\ toggled = Issued
    /\ inputValues \in {<<>>, getInputKey(0, 0, "chord") :> <<"z">>}

\* lines 113-119 (and 121-124, the click on a word cell): toggleBorder hands
\* React an updater; borders itself changes when React applies it
toggleBorder(rowIndex, colIndex, side) ==
    /\ TotalIssued(Cells \X Sides) < MaxToggles
    /\ pendingBorders' = Append(pendingBorders,
                                [key |-> <<rowIndex, colIndex>>,
                                 side |-> side, captured |-> borders])
    /\ toggled' = [toggled EXCEPT ![<<<<rowIndex, colIndex>>, side>>] = @ + 1]
    /\ UNCHANGED <<inputValues, borders, prevBorders>>

ToggleBorder ==
    /\ \E cell \in Cells, side \in Sides : toggleBorder(cell[1], cell[2], side)
    /\ UNCHANGED <<packVars, regionVars, exportVars, liveVars, legacyVars,
                   rhythmVars, textVars, viewVars, editVars, fieldVars>>

\* React applies the oldest queued updater to the current state
ApplyUpdater ==
    /\ pendingBorders # <<>>
    /\ LET u == Head(pendingBorders)
           r == ToggleUpdater(UpdaterInput(borders, u.captured), u.key, u.side)
       IN  /\ borders' = r.next
           /\ prevBorders' = r.prev
    /\ pendingBorders' = Tail(pendingBorders)
    /\ UNCHANGED <<inputValues, toggled>>
    /\ UNCHANGED <<packVars, regionVars, exportVars, liveVars, legacyVars,
                   rhythmVars, textVars, viewVars, editVars, fieldVars>>

BordersNext == ToggleBorder \/ ApplyUpdater

(***************************************************************************)
(* getRowLayout, App.jsx 287-330, and the ResizeObserver of lines 93-106.  *)
(* Widths are whole pixels; what the canvas measures is in half pixels.    *)
(***************************************************************************)
NoteGlyphs ==
    {"whole-note", "half-note", "quarter-note", "eighth-note",
     "sixteenth-note", "thirty-second-note", "whole-rest", "half-rest",
     "quarter-rest", "eighth-rest", "sixteenth-rest"}

\* ctx.measureText: the advance of one character in half pixels; the word
\* font (weight 600) is wider than the input font (weight 400)
AdvanceHalfPx(c, font) ==
    (IF c \in NoteGlyphs THEN 25
     ELSE IF c \in {" ", ".", ",", "-", ">", "|", "middle-dot", "en-dash"}
          THEN 7
     ELSE 15) + (IF font = "wordFont" THEN 1 ELSE 0)

\* lines 20-27: Math.ceil(ctx.measureText(s).width) + 4
measureTextPx(text, font) ==
    ((SumSeq([k \in 1..Len(text) |-> AdvanceHalfPx(text[k], font)]) + 1)
         \div 2) + 4

\* JavaScript's a || b on strings
OrElse(a, b) == IF a = <<>> THEN b ELSE a

\* lines 297-299
chordPH == IF showChords THEN <<"C", "h", "o", "r", "d">> ELSE <<>>
rhythmPH == IF showRhythm THEN <<"R", "h", "y", "t", "h", "m">> ELSE <<>>
notePH == IF showNotes THEN <<"N", "o", "t", "e">> ELSE <<>>

\* a mutant of wRhythm: only the raw value is measured
wRhythmRawOnly(rhythmRaw, rhythmPretty) ==
    IF showRhythm
    THEN measureTextPx(OrElse(rhythmRaw, rhythmPH), "inputFont") + paddingPx
    ELSE 0

\* lines 313-318
wRhythm(rhythmRaw, rhythmPretty) ==
    IF showRhythm
    THEN Max(measureTextPx(OrElse(rhythmRaw, rhythmPH), "inputFont")
                 + paddingPx,
             measureTextPx(OrElse(rhythmPretty, rhythmPH), "inputFont")
                 + paddingPx)
    ELSE 0

\* lines 301-324: the width of column colIndex
ColumnWidth(word, rowIndex, colIndex) ==
    LET chord == getInputValue(rowIndex, colIndex, "chord")
        rhythmRaw == getInputValue(rowIndex, colIndex, "rhythm")
        rhythmPretty == formatRhythm(rhythmRaw)
        note == getInputValue(rowIndex, colIndex, "note")
        wWord == measureTextPx(OrElse(word, <<>>), "wordFont") + paddingPx
        wChord == IF showChords
                  THEN measureTextPx(OrElse(chord, chordPH), "inputFont")
                           + paddingPx
                  ELSE 0
        wNote == IF showNotes
                 THEN measureTextPx(OrElse(note, notePH), "inputFont")
                          + paddingPx
                 ELSE 0
    IN  Max(minCol, Max(wWord, Max(wChord,
            Max(wRhythm(rhythmRaw, rhythmPretty), wNote))))

\* a mutant of LineWidthLimit: the width is not clamped
LineWidthLimitUnclamped(width) == width - 24

\* line 326: Math.max(320, previewWidth - 24)
LineWidthLimit(width) == Max(320, width - 24)

LayoutInit ==
    /\ words \in WordRows
    /\ showChords \in BOOLEAN /\ showRhythm \in BOOLEAN /\ showNotes \in BOOLEAN
    /\ previewWidth = 900
    /\ inputValues \in
           [{getInputKey(0, c, t) : c \in 0..(Len(words) - 1),
                                    t \in {"chord", "rhythm", "note"}}
               -> ChordVals \cup RhythmVals \cup NoteVals]
    /\ \A c \in 0..(Len(words) - 1) :
           /\ inputValues[getInputKey(0, c, "chord")] \in ChordVals
           /\ inputValues[getInputKey(0, c, "rhythm")] \in RhythmVals
           /\ inputValues[getInputKey(0, c, "note")] \in NoteVals
    /\ borders = <<>> /\ pendingBorders = <<>> /\ toggled = <<>>
    /\ prevBorders = <<>>

\* lines 98-103: the observer's callback stores Math.floor of the observed
\* width; it cannot run while getRowLayout does
ObserveResize ==
    /\ packPc = "idle"
    /\ \E w \in ObservedHalfPx : previewWidth' = w \div 2
    /\ UNCHANGED <<showChords, showRhythm, showNotes, words>>
    /\ UNCHANGED <<packVars, regionVars, exportVars, liveVars, legacyVars,
                   rhythmVars, textVars, storeVars, editVars, fieldVars>>

\* lines 287-327: the widths, the limit, and the call of packColumns
GetRowLayout ==
    /\ packPc = "idle"
    /\ widths' = [col \in 1..Len(words) |-> ColumnWidth(words[col], 0, col - 1)]
    /\ maxRowPx' = LineWidthLimit(previewWidth)
    /\ lines' = <<>> /\ current' = <<>> /\ currentW' = 0 /\ i' = 0
    /\ packPc' = "loop"
    /\ UNCHANGED <<regionVars, exportVars, appVars>>

LayoutNext ==
    \/ ObserveResize
    \/ GetRowLayout
    \/ PackFirst
    \/ PackAppend
    \/ PackBreak
    \/ PackReturn

(***************************************************************************)
(* The rhythm inputs of App.jsx 497-556: focus, blur and change handlers.  *)
(* React renders after each event, so a handler sees the editingKey and    *)
(* the values the event before it left.                                    *)
(***************************************************************************)
\* a mutant of ChangeAccepted: the handler stores whatever it receives
ChangeAcceptedAlways(rowIndex, colIndex) == TRUE

\* lines 540-544: if (!isEditing(rowIndex, colIndex, "rhythm")) return
ChangeAccepted(rowIndex, colIndex) == isEditing(rowIndex, colIndex, "rhythm")

\* lines 134-137: the updater of setInputValue
setInputValue(prev, key, value) ==
    [k \in DOMAIN prev \cup {key} |-> IF k = key THEN value ELSE prev[k]]

\* e.target.value of a change event: the text the input shows with one
\* character typed at its end, or with its last character deleted
TypedOver(shown) ==
    {shown \o <<c>> : c \in TypedChars}
        \cup (IF shown = <<>> THEN {} ELSE {SubSeq(shown, 1, Len(shown) - 1)})

EditInit ==
    /\ words = [c \in 1..(MaxColIndex + 1) |-> <<"z">>]
    /\ showChords = TRUE /\ showRhythm = TRUE /\ showNotes = FALSE
    /\ previewWidth = 900
    /\ inputValues \in {<<>>, getInputKey(0, 0, "rhythm") :> <<"1">>}
    /\ borders = <<>> /\ pendingBorders = <<>> /\ toggled = <<>>
    /\ prevBorders = <<>>
    /\ editingKey = null /\ lastFocused = null /\ lastEvent = NoEvent

\* lines 521-538: onFocus
FocusRhythm ==
    /\ \E cell \in Cells :
          /\ editingKey' = getInputKey(cell[1], cell[2], "rhythm")
          /\ lastFocused' = getInputKey(cell[1], cell[2], "rhythm")
          /\ lastEvent' = [type |-> "focus", cell |-> cell]
    /\ UNCHANGED <<packVars, regionVars, exportVars, liveVars, legacyVars,
                   rhythmVars, textVars, storeVars, viewVars, fieldVars>>

\* line 539: onBlur
BlurRhythm ==
    /\ \E cell \in Cells :
          /\ editingKey' = null
          /\ lastFocused' =
                 IF lastFocused = getInputKey(cell[1], cell[2], "rhythm")
                 THEN null ELSE lastFocused
          /\ lastEvent' = [type |-> "blur", cell |-> cell]
    /\ UNCHANGED <<packVars, regionVars, exportVars, liveVars, legacyVars,
                   rhythmVars, textVars, storeVars, viewVars, fieldVars>>

\* lines 540-551: onChange
ChangeRhythm ==
    /\ liveEdits < MaxEdits
    /\ liveEdits' = liveEdits + 1
    /\ \E cell \in Cells :
          \E value \in TypedOver(displayValue(cell[1], cell[2], "rhythm")) :
             /\ inputValues' =
                    IF ChangeAccepted(cell[1], cell[2])
                    THEN setInputValue(inputValues,
                                       getInputKey(cell[1], cell[2], "rhythm"),
                                       value)
                    ELSE inputValues
             /\ lastEvent' = [type |-> "change", cell |-> cell]
    /\ UNCHANGED <<editingKey, lastFocused, liveClasses, borders,
                   pendingBorders, toggled, prevBorders>>
    /\ UNCHANGED <<packVars, regionVars, exportVars, legacyVars, rhythmVars,
                   textVars, viewVars, fieldVars>>

EditNext == FocusRhythm \/ BlurRhythm \/ ChangeRhythm

(***************************************************************************)
(* Specifications: the packer on every bounded input, and one export of    *)
(* every bounded printable region.                                         *)
(***************************************************************************)
TextIdle ==
    /\ rawText = <<>> /\ rows = <<>> /\ rejoined = <<>> /\ rowsAgain = <<>>
    /\ textPc = "idle"

\* lines 66, 69: useState({}) twice
StoreIdle ==
    /\ inputValues = <<>> /\ borders = <<>>
    /\ pendingBorders = <<>> /\ toggled = <<>> /\ prevBorders = <<>>

\* lines 74-76, 91: chords on, rhythm and notes off, width 900
ViewIdle ==
    /\ showChords = TRUE /\ showRhythm = FALSE /\ showNotes = FALSE
    /\ previewWidth = 900 /\ words = <<>>

\* line 79: useState(null)
EditIdle == editingKey = null /\ lastFocused = null /\ lastEvent = NoEvent

FieldIdle == cloneFields = <<>> /\ fieldText = <<>>

UiIdle(except) ==
    /\ IF "rhythm" \in except THEN TRUE ELSE RhythmIdle
    /\ IF "text" \in except THEN TRUE ELSE TextIdle
    /\ IF "store" \in except THEN TRUE ELSE StoreIdle
    /\ IF "view" \in except THEN TRUE ELSE ViewIdle
    /\ IF "edit" \in except THEN TRUE ELSE EditIdle
    /\ IF "field" \in except THEN TRUE ELSE FieldIdle

AppIdle == LiveIdle /\ LegacyIdle /\ UiIdle({})

InitPack == PackInit /\ RegionIdle /\ ExportIdle /\ AppIdle
SpecPack == InitPack /\ [][PackNext]_vars

InitExport == PackIdle /\ RegionInit /\ ExportIdle /\ AppIdle
SpecExport == InitExport /\ [][ExportNext \/ UserEdit]_vars

InitLegacy == PackIdle /\ LegacyRegionInit /\ ExportIdle /\ AppIdle
SpecLegacy == InitLegacy /\ [][LegacyNext]_vars

\* one row of one word, packed in two line groups, with all three field
\* kinds shown; the rhythm field is being edited or not when the export
\* starts
SnapshotInit ==
    /\ groupHeight = <<2, 2>> /\ groupGap = 0 /\ pageWidthPx \in {1, 174}
    /\ words = <<<<"z">>>>
    /\ showChords = TRUE /\ showRhythm = TRUE /\ showNotes = TRUE
    /\ previewWidth = 900
    /\ \E chord \in FieldVals, note \in FieldVals,
          rhythm \in SeqsUpTo(SnapshotChars, MaxRhythmLen) :
           inputValues = (getInputKey(0, 0, "chord") :> chord)
                            @@ (getInputKey(0, 0, "rhythm") :> rhythm)
                            @@ (getInputKey(0, 0, "note") :> note)
    /\ borders = <<>> /\ pendingBorders = <<>> /\ toggled = <<>>
    /\ prevBorders = <<>>
    /\ editingKey \in {null, getInputKey(0, 0, "rhythm")}
    /\ lastFocused = editingKey /\ lastEvent = NoEvent

InitSnapshot ==
    /\ PackIdle /\ ExportIdle /\ LiveIdle /\ LegacyIdle
    /\ SnapshotInit /\ UiIdle({"store", "view", "edit"})
SpecSnapshot == InitSnapshot /\ [][ExportNext]_vars

InitBorders ==
    /\ PackIdle /\ RegionIdle /\ ExportIdle /\ LiveIdle /\ LegacyIdle
    /\ BordersInit /\ UiIdle({"store"})
SpecBorders == InitBorders /\ [][BordersNext]_vars

InitText ==
    /\ PackIdle /\ RegionIdle /\ ExportIdle /\ LiveIdle /\ LegacyIdle
    /\ TextInit /\ UiIdle({"text"})
SpecText == InitText /\ [][TextNext]_vars

InitLayout ==
    /\ PackIdle /\ RegionIdle /\ ExportIdle /\ LiveIdle /\ LegacyIdle
    /\ LayoutInit /\ UiIdle({"store", "view"})
SpecLayout == InitLayout /\ [][LayoutNext]_vars

InitEdit ==
    /\ PackIdle /\ RegionIdle /\ ExportIdle /\ LiveIdle /\ LegacyIdle
    /\ EditInit /\ UiIdle({"store", "view", "edit"})
SpecEdit == InitEdit /\ [][EditNext]_vars

\* a region 174 px wide, whose pages hold at most 250 px, with line groups
\* that fill a page exactly
PlacementRegionInit ==
    /\ groupHeight \in SeqsUpTo(PlacedHeightVals, MaxGroups)
    /\ groupGap = 0
    /\ pageWidthPx = 174

InitPlacement == PackIdle /\ PlacementRegionInit /\ ExportIdle /\ AppIdle
SpecPlacement == InitPlacement /\ [][ExportNext]_vars

InitRhythm ==
    /\ PackIdle /\ RegionIdle /\ ExportIdle /\ LiveIdle /\ LegacyIdle
    /\ RhythmInit /\ UiIdle({"rhythm"})
SpecRhythm == InitRhythm /\ [][FormatRhythm]_vars

Init == InitExport
Next == ExportNext
Spec == SpecExport

(***************************************************************************)
(* Properties of packColumns.                                              *)
(***************************************************************************)
Indices == [k \in 1..Len(widths) |-> k - 1]

LineWidth(line) == SumSeq([k \in 1..Len(line) |-> widths[line[k] + 1]])

\* column idx is the first column of a returned line
StartsLine(idx) ==
    \E l \in 1..Len(lines) : lines[l] # <<>> /\ lines[l][1] = idx

\* for idx > 0: the width of the line as built when column idx is reached,
\* which is the part before idx of the returned line that holds idx - 1
BuiltSoFar(idx) ==
    LET l == CHOOSE m \in 1..Len(lines) :
                 \E k \in 1..Len(lines[m]) : lines[m][k] = idx - 1
    IN  LineWidth(SelectSeq(lines[l], LAMBDA x : x < idx))

\* C1: for every widths sequence (the empty one included) and maxRowPx >= 1
\* the returned lines are an ordered partition of the indices 0..len-1: no
\* line is empty and the lines concatenated are 0, 1, ..., len-1; the empty
\* sequence yields no line.
C1_PackIsOrderedPartition ==
    (packPc = "done" /\ maxRowPx >= 1) =>
        /\ \A l \in 1..Len(lines) : Len(lines[l]) >= 1
        /\ Flatten(lines) = Indices
        /\ (widths = <<>> => lines = <<>>)

C1_Witness ==
    /\ packPc = "done" /\ maxRowPx >= 1
    /\ Len(lines) >= 2
    /\ \E l \in 1..Len(lines) : Len(lines[l]) >= 2

\* C2: for positive widths and every maxRowPx, each returned line has total
\* width <= maxRowPx or holds exactly one index.
C2_LineFitsOrIsSingle ==
    (packPc = "done" /\ \A k \in 1..Len(widths) : widths[k] > 0) =>
        \A l \in 1..Len(lines) :
            LineWidth(lines[l]) <= maxRowPx \/ Len(lines[l]) = 1

C2_Witness ==
    /\ packPc = "done"
    /\ \E l \in 1..Len(lines) :
          Len(lines[l]) >= 2 /\ LineWidth(lines[l]) = maxRowPx
    /\ \E l \in 1..Len(lines) :
          Len(lines[l]) = 1 /\ LineWidth(lines[l]) > maxRowPx

\* C3: greedy first-fit: index idx starts a line exactly when idx = 0 or
\* the width of the line built so far plus widths[idx] exceeds maxRowPx;
\* so for two consecutive lines the width of the earlier one plus the first
\* column of the later one exceeds maxRowPx; pack([100,100,100], 250) is
\* [[0,1],[2]] and pack([5], 1) is [[0]].
C3_GreedyFirstFit ==
    packPc = "done" =>
        /\ \A idx \in 0..(Len(widths) - 1) :
              StartsLine(idx) <=>
                  (idx = 0 \/ BuiltSoFar(idx) + widths[idx + 1] > maxRowPx)
        /\ \A l \in 1..(Len(lines) - 1) :
              LineWidth(lines[l]) + widths[lines[l + 1][1] + 1] > maxRowPx
        /\ (widths = <<100, 100, 100>> /\ maxRowPx = 250
               => lines = << <<0, 1>>, <<2>> >>)
        /\ (widths = <<5>> /\ maxRowPx = 1 => lines = << <<0>> >>)

C3_Witness ==
    /\ packPc = "done"
    /\ widths = <<100, 100, 100>> /\ maxRowPx = 250
    /\ lines = << <<0, 1>>, <<2>> >>

(***************************************************************************)
(* Properties of the pagination loop of exportPdf.                         *)
(***************************************************************************)
\* the loop of lines 233-242 has finished
Paginated ==
    \/ exportPc \in {"render", "canvas", "done"}
    \/ exportPc = "failed" /\ failedStep \in {"rasterize", "assemble", "save"}

\* group g is the first child of a page made inside the loop (line 239)
StartsNewPage(g) ==
    \E p \in 2..Len(pages) : pages[p] # <<>> /\ pages[p][1] = g

\* the children of the current page when the loop reaches group g: none for
\* the first group, else the part before g of the page that holds g - 1
CurrentPageBefore(g) ==
    IF g = 0 THEN <<>>
    ELSE LET p == CHOOSE q \in 1..Len(pages) :
                      \E k \in 1..Len(pages[q]) : pages[q][k] = g - 1
         IN  SelectSeq(pages[p], LAMBDA x : x < g)

\* C4: when the pagination loop has finished, every line group is a child
\* of exactly one page, and the pages in order, each read in order, give the
\* original sequence of line groups.
C4_PagesPartitionGroups ==
    Paginated =>
        /\ lineGroups = [k \in 1..Len(groupHeight) |-> k - 1]
        /\ Flatten(pages) = lineGroups
        /\ \A g \in 0..(Len(groupHeight) - 1) :
              Cardinality({p \in 1..Len(pages) :
                  \E k \in 1..Len(pages[p]) : pages[p][k] = g}) = 1

C4_Witness ==
    /\ Paginated
    /\ Len(pages) >= 2
    /\ \E p \in 1..Len(pages) : Len(pages[p]) >= 2

\* C5: after pagination every page whose measured height exceeds
\* maxPageHeightPx holds exactly one line group; a page of two or more
\* groups measures at most maxPageHeightPx.
C5_OnlySinglePagesOverflow ==
    Paginated =>
        \A p \in 1..Len(pages) :
            /\ scrollHeight(pages[p]) > maxPageHeightPx => Len(pages[p]) = 1
            /\ Len(pages[p]) >= 2 => scrollHeight(pages[p]) <= maxPageHeightPx

C5_Witness ==
    /\ Paginated
    /\ \E p \in 1..Len(pages) :
          Len(pages[p]) = 1 /\ scrollHeight(pages[p]) > maxPageHeightPx
    /\ \E p \in 1..Len(pages) :
          Len(pages[p]) >= 2 /\ scrollHeight(pages[p]) = maxPageHeightPx

\* C6: for every sequence of line groups handed to the pagination step,
\* whatever its length, every page of the resulting page list holds at least
\* one line group, and no empty page is rasterized or added to the document.
C6_NoEmptyPage ==
    /\ Paginated => \A p \in 1..Len(pages) : Len(pages[p]) >= 1
    /\ \A k \in 1..Len(rasterStarted) : pages[rasterStarted[k] + 1] # <<>>
    /\ \A k \in 1..Len(images) : images[k].groups # <<>>

C6_Witness ==
    /\ exportPc = "done"
    /\ Len(groupHeight) >= 1
    /\ Len(pages) >= 2
    /\ Len(images) = Len(pages)
    /\ scrollHeight(pages[1]) > maxPageHeightPx

\* C7: pagination is greedy: a line group starts a new page exactly when
\* the current page already holds at least one other group and the page
\* measured with the group appended exceeds maxPageHeightPx; otherwise it
\* stays on the current page.  Additive heights [100,100,100,100] with
\* maximum 250 give the pages [[g0,g1],[g2,g3]].
C7_GreedyPagination ==
    Paginated =>
        /\ \A g \in 0..(Len(groupHeight) - 1) :
              StartsNewPage(g) <=>
                  /\ Len(CurrentPageBefore(g)) >= 1
                  /\ scrollHeight(Append(CurrentPageBefore(g), g))
                         > maxPageHeightPx
        /\ (/\ groupHeight = <<100, 100, 100, 100>>
            /\ groupGap = 0
            /\ maxPageHeightPx = 250)
               => pages = << <<0, 1>>, <<2, 3>> >>

C7_Witness ==
    /\ Paginated
    /\ groupHeight = <<100, 100, 100, 100>>
    /\ groupGap = 0
    /\ maxPageHeightPx = 250
    /\ pages = << <<0, 1>>, <<2, 3>> >>

(***************************************************************************)
(* Properties of the rasterization loop and of the exits of exportPdf.     *)
(***************************************************************************)
\* the positions inside the try block (lines 182-279)
InTry == exportPc \in {"raf1", "raf2", "paginate", "render", "canvas"}

\* C8: within one run the pages are rasterized strictly in page order and
\* never two at a time: page i + 1 is not started before page i has
\* completed and its image has been added; the document receives exactly
\* one image per page, in page order.
C8_RasterizationIsSequential ==
    /\ Cardinality(inflight) <= 1
    /\ rasterStarted = [k \in 1..Len(rasterStarted) |-> k - 1]
    /\ Len(rasterStarted) <= Len(images) + 1
    /\ (inflight # {} => inflight = {Len(images)} /\ exportPc = "canvas")
    /\ \A k \in 1..Len(images) :
          /\ images[k].page = k - 1
          /\ images[k].pdfPage = k
          /\ images[k].groups = pages[k]
    /\ (exportPc = "done" =>
           /\ Len(images) = Len(pages)
           /\ pdfPages = Len(pages)
           /\ Len(rasterStarted) = Len(pages))

C8_Witness ==
    /\ exportPc = "canvas"
    /\ pageIdx = 2
    /\ inflight = {2}
    /\ Len(images) = 2

\* C9: a run that has attached its holder removes it on every exit path,
\* normal completion or a throw of any step; the holder is attached only
\* while the run is inside the try block, and never after the run ended.
C9_HolderRemovedOnEveryExit ==
    /\ (exportPc \in {"done", "failed"} => ~holderAttached)
    /\ (holderAttached <=> InTry)

C9_Witness ==
    /\ exportPc = "failed"
    /\ failedStep = "assemble"
    /\ Len(images) >= 1
    /\ ~holderAttached

\* C10: when a rasterization or document-assembly step fails, the returned
\* promise is rejected and not resolved, the document is not saved, no
\* further page is rasterized and the failed step is not run again: the
\* failing page is the last one started, started once, and nothing of the
\* run changes after the failure.
C10_FailureState ==
    (exportPc = "failed" /\ failedStep \in {"rasterize", "assemble"}) =>
        /\ outcome = "rejected"
        /\ ~saved
        /\ inflight = {}
        /\ Len(images) = pageIdx
        /\ Len(rasterStarted) <= pageIdx + 1
        /\ \A k \in 1..Len(rasterStarted) : rasterStarted[k] = k - 1

C10_FailureReachesCaller ==
    /\ []C10_FailureState
    /\ [][exportPc = "failed" => UNCHANGED exportVars]_vars

C10_Witness ==
    /\ exportPc = "failed"
    /\ failedStep = "rasterize"
    /\ outcome = "rejected"
    /\ pageIdx = 1
    /\ Len(pages) >= 3

(***************************************************************************)
(* Properties of the live printable element.                               *)
(***************************************************************************)
\* C11: the export routine never mutates the live printable element: from
\* the start to the end of a run, failed runs included and with user edits
\* in between, its class list is the one React renders (line 418); the
\* children change by user edits only, which no export action touches.
C11_LiveRegionUntouchedByExport == liveClasses = {"printableWrap"}

\* the state the claim excludes: a run of part_000's exportPdf in flight
\* after a user edit, with the live element carrying the export class
C11_LiveRegionMarked ==
    /\ legacyPc = "slice"
    /\ liveEdits >= 1
    /\ "pdf-export" \in liveClasses


(***************************************************************************)
(* Claims about formatRhythm (SpecRhythm).                                 *)
(***************************************************************************)
\* the space-separated tokens of an output; the empty output has none
OutputTokens(out) == IF out = <<>> THEN <<>> ELSE Split(out, " ", <<>>)

\* what is left of a token without its accent, staccato and dot markers
Core(tok) ==
    LET t2 == Without(Without(tok, ">"), "x")
    IN  SubSeq(t2, 1, Len(t2) - TrailingDots(t2))

\* the token is a duration code, a rest, or a tie of them: at least one side,
\* every side a code or a rest
Recognised(tok) ==
    LET sides == Runs(Core(tok), {"-"}, <<>>)
    IN  \/ renderSingle(Core(tok)) # "none"
        \/ /\ sides # <<>>
           /\ \A k \in 1..Len(sides) : renderSingle(sides[k]) # "none"

\* C17: formatRhythm loses no data: the output has as many space-separated
\* tokens as the input has tokens, none of them is empty, and a token that is
\* not a duration code, a rest or a tie of them is in the output unchanged at
\* its position.
C17_NoDataLoss ==
    rhythmPc = "done" =>
        LET tokens == tokenizeRhythm(rhythmIn)
            outTokens == OutputTokens(rhythmOut)
        IN  /\ Len(outTokens) = Len(tokens)
            /\ \A k \in 1..Len(tokens) :
                   /\ outTokens[k] # <<>>
                   /\ ~Recognised(tokens[k]) => outTokens[k] = tokens[k]

\* the cases of C17 that the code does satisfy: "zz" and the empty input
C17_Examples ==
    rhythmPc = "done" =>
        /\ rhythmIn = <<"z", "z">> => rhythmOut = <<"z", "z">>
        /\ rhythmIn = <<>> => rhythmOut = <<>>

\* a token of hyphens only has been formatted to nothing
C17_TokenLost ==
    /\ rhythmPc = "done"
    /\ rhythmIn = <<"-">>
    /\ rhythmOut = <<>>

(***************************************************************************)
(* Claims about the fields of the export snapshot (SpecSnapshot).          *)
(***************************************************************************)
FieldsReplaced ==
    /\ exportPc \notin {"idle", "raf1", "raf2"}
    /\ failedStep \notin {"frame", "fields"}

\* C12: in the snapshot every field is plain text equal to its display
\* value: formatRhythm(stored raw value) for a rhythm field, the stored raw
\* value for a chord or note field, whether or not the rhythm field was being
\* edited when the export started.
C12_SnapshotShowsDisplayValue ==
    FieldsReplaced =>
        /\ Len(fieldText) = Len(LiveFields)
        /\ \A n \in 1..Len(fieldText) :
               LET f == fieldText[n]
                   raw == getInputValue(f.rowIndex, f.colIndex, f.type)
               IN  f.text = IF f.type = "rhythm" THEN formatRhythm(raw)
                            ELSE raw

\* the part of C12 the code satisfies: the fields whose rhythm value has no
\* token of hyphens only
C12_ExceptLostTokens ==
    LET tokens == tokenizeRhythm(getInputValue(0, 0, "rhythm"))
    IN  (\A k \in 1..Len(tokens) : parseToken(tokens[k]).text # <<>>
                                      \/ ~parseToken(tokens[k]).ok)
    => C12_SnapshotShowsDisplayValue

(***************************************************************************)
(* Claims about the border store (SpecBorders).                            *)
(***************************************************************************)
NoBorder == [left |-> FALSE, right |-> FALSE]

\* the toggles of a triple that were issued and are not applied yet
RECURSIVE PendingOn(_, _)
PendingOn(queue, t) ==
    IF queue = <<>> THEN 0
    ELSE (IF <<Head(queue).key, Head(queue).side>> = t THEN 1 ELSE 0)
             + PendingOn(Tail(queue), t)

\* C13: a cell that was never toggled reads {left:false, right:false}, and
\* from every state the store reaches, toggling one side of one cell twice in
\* a row gives that side the value it had before, whether the cell's entry
\* was absent or present.
C13_DefaultAndDoubleToggle ==
    /\ \A cell \in Cells :
           (\A side \in Sides : toggled[<<cell, side>>] = 0)
               => getBorderState(cell[1], cell[2]) = NoBorder
    /\ \A cell \in Cells, side \in Sides :
           LET once == ToggleUpdater(borders, cell, side).next
               twice == ToggleUpdater(once, cell, side).next
           IN  /\ BorderOf(twice, cell)[side] = BorderOf(borders, cell)[side]
               /\ BorderOf(twice, cell)[side]
                      = getBorderState(cell[1], cell[2])[side]
               /\ BorderOf(once, cell)[side] # BorderOf(borders, cell)[side]

\* one side of a cell was toggled twice and reads false from a present
\* entry, while another cell has no entry
C13_Witness ==
    /\ pendingBorders = <<>>
    /\ \E cell \in Cells, other \in Cells, side \in Sides :
          /\ toggled[<<cell, side>>] = 2
          /\ cell \in DOMAIN borders /\ borders[cell] = NoBorder
          /\ other \notin DOMAIN borders
          /\ getBorderState(other[1], other[2]) = getBorderState(cell[1], cell[2])

\* C14: applying toggleBorder(row, col, side) negates that side of that cell,
\* creating the entry with the other side false when it was absent, and
\* changes neither the other side, nor any other cell's entry, nor the
\* annotation values, nor the object the updater was passed.
C14_ToggleFrame ==
    [][pendingBorders # <<>> /\ pendingBorders' = Tail(pendingBorders) =>
          LET u == Head(pendingBorders)
              otherSide == CHOOSE x \in Sides : x # u.side
          IN  /\ u.key \in DOMAIN borders'
              /\ borders'[u.key][u.side] = ~BorderOf(borders, u.key)[u.side]
              /\ borders'[u.key][otherSide] = BorderOf(borders, u.key)[otherSide]
              /\ u.key \notin DOMAIN borders => borders'[u.key][otherSide] = FALSE
              /\ \A cell \in Cells \ {u.key} :
                     /\ cell \in DOMAIN borders' <=> cell \in DOMAIN borders
                     /\ cell \in DOMAIN borders => borders'[cell] = borders[cell]
              /\ DOMAIN borders' \subseteq Cells
              /\ inputValues' = inputValues
              /\ prevBorders' = borders]_vars

\* toggles were applied to an absent entry and to a present one while
\* another cell has an entry and an annotation value is stored
C14_Witness ==
    /\ pendingBorders = <<>>
    /\ inputValues # <<>>
    /\ prevBorders # <<>> /\ prevBorders # borders
    /\ \E cell \in Cells, other \in Cells :
          /\ cell # other
          /\ cell \in DOMAIN borders /\ other \in DOMAIN borders
          /\ cell \in DOMAIN prevBorders
          /\ borders[other] # NoBorder

\* C15: no toggle is lost: whatever was queued and in whatever order, each
\* side of each cell is false negated once per toggle issued on that triple
\* and applied, so with nothing pending it is the parity of the triple's own
\* toggles.
C15_TogglesIndependent ==
    \A cell \in Cells, side \in Sides :
        getBorderState(cell[1], cell[2])[side]
            = ((toggled[<<cell, side>>]
                   - PendingOn(pendingBorders, <<cell, side>>)) % 2 = 1)

\* toggles on three different triples were queued together and all applied
C15_Witness ==
    /\ pendingBorders = <<>>
    /\ Cardinality({t \in Cells \X Sides : toggled[t] = 1}) = 3
    /\ \E cell \in Cells : borders[cell] = [left |-> TRUE, right |-> TRUE]

(***************************************************************************)
(* Claims about normalizeTextToRows (SpecText).                            *)
(***************************************************************************)
\* C16: tokenizing is idempotent under rejoin: normalizing the rows joined by
\* newline, words joined by one space, gives the same rows; every row has at
\* least one word, every word is non-empty and holds no whitespace.
C16_RejoinIdempotent ==
    /\ textPc = "done" => rowsAgain = rows
    /\ textPc \in {"rows", "done"} =>
           \A k \in 1..Len(rows) :
               /\ Len(rows[k]) >= 1
               /\ \A n \in 1..Len(rows[k]) :
                      /\ rows[k][n] # <<>>
                      /\ \A c \in 1..Len(rows[k][n]) :
                             rows[k][n][c] \notin Whitespace

\* a text of two rows whose rejoin differs from it was normalized twice
C16_Witness ==
    /\ textPc = "done"
    /\ Len(rows) = 2
    /\ rejoined # rawText
    /\ \E k \in 1..Len(rawText) : rawText[k] = "\r"

(***************************************************************************)
(* Claims about getRowLayout (SpecLayout).                                 *)
(***************************************************************************)
RECURSIVE MaxOf(_)
MaxOf(S) ==
    LET x == CHOOSE y \in S : TRUE
    IN  IF S = {x} THEN x ELSE Max(x, MaxOf(S \ {x}))

Needs(text, font) == measureTextPx(text, font) + paddingPx

\* the width the column of a word must have, from its annotation values and
\* the active kinds, the placeholder label standing in for an empty text
ExpectedWidth(word, chord, raw, note, sc, sr, sn) ==
    MaxOf({minCol, Needs(word, "wordFont")}
          \cup (IF sc THEN {Needs(OrElse(chord, <<"C", "h", "o", "r", "d">>),
                                  "inputFont")}
                ELSE {})
          \cup (IF sr THEN {Needs(OrElse(raw, <<"R", "h", "y", "t", "h", "m">>),
                                  "inputFont"),
                            Needs(OrElse(formatRhythm(raw),
                                         <<"R", "h", "y", "t", "h", "m">>),
                                  "inputFont")}
                ELSE {})
          \cup (IF sn THEN {Needs(OrElse(note, <<"N", "o", "t", "e">>),
                                  "inputFont")}
                ELSE {}))

\* C18: every column's width is the maximum of the minimum column width, the
\* word's measure plus padding and, for the active kinds only, the measure
\* plus padding of the value (the placeholder label when empty), the rhythm
\* measured raw and formatted; values of inactive kinds do not count, and
\* the width is at least what the raw and the formatted rhythm text need.
C18_ColumnWidth ==
    packPc # "idle" =>
        /\ Len(widths) = Len(words)
        /\ \A col \in 1..Len(words) :
               LET chord == getInputValue(0, col - 1, "chord")
                   raw == getInputValue(0, col - 1, "rhythm")
                   note == getInputValue(0, col - 1, "note")
               IN  /\ widths[col] = ExpectedWidth(words[col], chord, raw, note,
                                                  showChords, showRhythm,
                                                  showNotes)
                   /\ widths[col] = ExpectedWidth(words[col],
                                       IF showChords THEN chord ELSE <<>>,
                                       IF showRhythm THEN raw ELSE <<>>,
                                       IF showNotes THEN note ELSE <<>>,
                                       showChords, showRhythm, showNotes)
                   /\ widths[col] >= minCol
                   /\ showRhythm =>
                          /\ widths[col] >= Needs(raw, "inputFont")
                          /\ widths[col] >= Needs(formatRhythm(raw), "inputFont")

\* a column whose width comes from the formatted rhythm, wider than the raw
\* one, while a long chord value is inactive
C18_Witness ==
    /\ packPc = "done"
    /\ showRhythm /\ ~showChords
    /\ getInputValue(0, 0, "chord") = LongText
    /\ getInputValue(0, 0, "rhythm") = <<"1">>
    /\ words[1] = <<"z">>
    /\ widths[1] = Needs(formatRhythm(<<"1">>), "inputFont")
    /\ widths[1] > Needs(<<"1">>, "inputFont")
    /\ widths[1] > Needs(words[1], "wordFont")

\* C19: whatever widths were observed, the limit getRowLayout passes to
\* packColumns is max(320, latest observed width - 24), at least 320, and
\* the layout of the non-empty row ends with a packing of all its columns.
C19_LineWidthClamped ==
    packPc # "idle" =>
        /\ maxRowPx = IF previewWidth - 24 > 320 THEN previewWidth - 24 ELSE 320
        /\ maxRowPx >= 320
        /\ packPc = "done" =>
               /\ lines # <<>>
               /\ Flatten(lines) = [k \in 1..Len(words) |-> k - 1]
               /\ \A k \in 1..Len(lines) : lines[k] # <<>>

\* a width below the inset was observed and the row was packed in two lines
C19_Witness ==
    /\ packPc = "done"
    /\ previewWidth < 24
    /\ maxRowPx = 320
    /\ Len(lines) = 2

(***************************************************************************)
(* Claims about rhythm editing (SpecEdit).                                 *)
(***************************************************************************)
DisplayOnly == NoteGlyphs \cup {"middle-dot", "en-dash"}

RhythmKeys == {getInputKey(cell[1], cell[2], "rhythm") : cell \in Cells}

\* no stored value holds a character that only formatRhythm produces
StoreIsRaw ==
    \A key \in DOMAIN inputValues :
        \A k \in 1..Len(inputValues[key]) : inputValues[key][k] \notin DisplayOnly

\* the value stored under key differs after the step
ValueChanged(key) ==
    /\ key \in DOMAIN inputValues'
    /\ \/ key \notin DOMAIN inputValues
       \/ inputValues'[key] # inputValues[key]

\* the step is a change event on a cell that is not being edited
ChangeElsewhere ==
    /\ lastEvent'.type = "change"
    /\ editingKey # getInputKey(lastEvent'.cell[1], lastEvent'.cell[2],
                                "rhythm")

\* what C20 says of one step
GuardedStep ==
    /\ \A key \in RhythmKeys :
           ValueChanged(key) =>
               /\ lastEvent' = [type |-> "change", cell |-> <<key[1], key[2]>>]
               /\ editingKey = key
               /\ \A other \in DOMAIN inputValues \ {key} :
                      inputValues'[other] = inputValues[other]
    /\ DOMAIN inputValues \subseteq DOMAIN inputValues'
    /\ ChangeElsewhere => inputValues' = inputValues
    /\ lastEvent'.type # "change" => inputValues' = inputValues

\* C20: a stored rhythm value changes only by a change event on its cell
\* received while editingKey is that cell's key; a change event on another
\* cell than the edited one leaves the store as it is, so no formatted text
\* gets into the store; editingKey is null or the key of the rhythm cell
\* focused last and not blurred since.
C20_EditingGuard ==
    /\ [](StoreIsRaw /\ editingKey \in {null, lastFocused})
    /\ [][GuardedStep]_vars

\* a change on a cell that shows formatted text was ignored after the edited
\* cell's value had been changed, and the edited cell is still in focus
C20_Witness ==
    /\ lastEvent = [type |-> "change", cell |-> <<0, 0>>]
    /\ editingKey = getInputKey(0, 1, "rhythm")
    /\ getInputValue(0, 1, "rhythm") = <<"1">>
    /\ getInputValue(0, 0, "rhythm") = <<"1">>
    /\ displayValue(0, 0, "rhythm") # getInputValue(0, 0, "rhythm")

(***************************************************************************)
(* Claims about the placed images (SpecPlacement).                         *)
(***************************************************************************)
\* lines 265-266 against line 211: imgHeightMm = canvas.height * imgWidthMm
\* / canvas.width is at most printableHeightMm, without the division
FitsPrintable(canvas) ==
    canvas.height * printableWidthMm <= printableHeightMm * canvas.width

\* C21: the image of every page that holds two or more line groups, its
\* height taken from the page as rasterized, bottom padding included, and
\* scaled to the printable width, is no higher than the printable height.
C21_ImageInPrintableArea ==
    \A k \in 1..Len(images) :
        Len(images[k].groups) >= 2 => FitsPrintable(images[k].canvas)

\* what the pagination does ensure: the same pages fit without the padding
C21_FitsBeforePadding ==
    \A k \in 1..Len(images) :
        Len(images[k].groups) >= 2 =>
            FitsPrintable([width |-> images[k].canvas.width,
                           height |-> images[k].canvas.height
                                          - paddingBottomPx * SCALE])

\* a page of two line groups that fills the page height was placed
C21_FullPagePlaced ==
    \E k \in 1..Len(images) :
        /\ Len(images[k].groups) = 2
        /\ scrollHeight(images[k].groups) = maxPageHeightPx
=============================================================================
